---------------------------- MODULE Spec2Model ----------------------------
(***************************************************************************)
(* Model of src/src/neural_astar/planner/pq_astar.py: the batched,         *)
(* priority-queue A* search over dense 3D grids (pq_astar, solve_single,   *)
(* get_neighbor_indices, compute_chebyshev_distance, get_history,          *)
(* backtrack).                                                             *)
(*                                                                         *)
(* Representation.                                                         *)
(*  - A volume of shape (H, W, D) holding 0/1 is the set of its non-zero   *)
(*    positions <<r, c, d>> (0-based row, column, layer).                  *)
(*    A map design is the set of the positions where it holds 1; a cost    *)
(*    volume is a function from positions to costs.                        *)
(*  - A pqdict / dict is a function from its keys to its values.           *)
(*  - None is the value NoParent.                                          *)
(*  - Scores are fixed point.  g_ratio is g2/2 with g2 in {0,1,2}; the     *)
(*    heuristic is counted in units of 10^-6 (so 0.001 * euc is            *)
(*    floor(1000 * sqrt(s)) units) and an f-score in units of 10^-6 / 2,   *)
(*    which makes f_new of line 193 an exact integer expression.  The      *)
(*    order of two scores is their order in exact arithmetic; scores that  *)
(*    are equal in exact arithmetic but differ by float rounding in the    *)
(*    program are equal here.                                              *)
(*  - popitem returns an entry of minimal priority; which one among equal  *)
(*    priorities is decided inside pqdict and is modelled as a choice.     *)
(***************************************************************************)
EXTENDS Integers, Sequences, FiniteSets, TLC

\* ------------------------------------------------------------- bounds --
\* Spec: one instance, varied costs
MaxDim == 3
MaxCells == 8
MaxCost == 2
\* SpecUniform: one instance, the same cost on every cell
MaxUDim == 3
MaxUCells == 9
\* SpecBatch: several instances
MaxBatch == 2
MaxBatchDim == 3
MaxBatchCells == 4
\* SpecMarkers: marker volumes with any number of flagged cells
MaxFlagged == 2
MaxMarkerDim == 2
MaxMarkerCells == 4
\* SpecSparse: one instance, cost 0 on every cell but two
MaxSparseDim == 3
MaxSparseCells == 6
\* SpecDesigns: one instance, any map design
MaxDesignDim == 3
MaxDesignCells == 4
\* SpecNeighbors: get_neighbor_indices alone
MaxNbDim == 3
\* SpecHeuristic: compute_chebyshev_distance alone
MaxCdDim == 3

VARIABLES
    H, W, D,                  \* map_design.shape
    pred_costs,               \* per instance: [position -> cost]
    start_maps,               \* per instance: set of flagged positions
    goal_maps,                \* per instance: set of flagged positions
    map_designs,              \* per instance: set of the positions holding 1
    store_intermediate_results,
    g2,                       \* g_ratio = g2 / 2
    pc,                       \* "pq_astar", "for", "loop", "returned", "error"
    n,                        \* loop variable of pq_astar (1-based)
    histories, path_maps,     \* the arrays pq_astar fills, one volume per instance
    outcome,                  \* per instance: "none", "found", "notfound"
    output,                   \* what pq_astar returned: NoOutput or a record
    start_idx, goal_idx,
    open_list, close_list, parent_list,
    num_steps,
    nb_idx, nb_out,           \* a call of get_neighbor_indices and its result
    cd_idx, cd_goal, cd_out   \* a call of compute_chebyshev_distance: its
                              \* arguments, its local h and its result

inputs == <<H, W, D, pred_costs, start_maps, goal_maps, map_designs,
            store_intermediate_results, g2>>
locals == <<start_idx, goal_idx, open_list, close_list, parent_list, num_steps>>
probe == <<nb_idx, nb_out, cd_idx, cd_goal, cd_out>>
vars == <<H, W, D, pred_costs, start_maps, goal_maps, map_designs,
          store_intermediate_results, g2, pc, n, histories, path_maps,
          outcome, output, start_idx, goal_idx, open_list, close_list,
          parent_list, num_steps, nb_idx, nb_out, cd_idx, cd_goal, cd_out>>

NoParent == -1
NoOutput == [histories |-> <<>>, paths |-> <<>>, ok |-> FALSE]
Empty == [k \in {} |-> 0]
NoCall == [h |-> 0, ret |-> 0]

\* ------------------------------------------------------- linearization --
Positions(h, w, d) == (0 .. h - 1) \X (0 .. w - 1) \X (0 .. d - 1)

\* numpy flatten('F') of a (h, w, d) array: the first axis varies fastest.
FlattenF(pos, h, w, d) == pos[1] + h * pos[2] + h * w * pos[3]

\* idx % W, idx // W % H, idx // (W * H)
LocX(idx, w) == idx % w
LocY(idx, h, w) == (idx \div w) % h
LocZ(idx, h, w) == idx \div (w * h)

\* loc of line 93: [x, y, z]
Loc(idx, h, w) == <<LocX(idx, w), LocY(idx, h, w), LocZ(idx, h, w)>>

\* The output position written for idx: map[y, x, z] = 1.
OutPos(idx, h, w) == <<LocY(idx, h, w), LocX(idx, w), LocZ(idx, h, w)>>


\* ------------------------------------------------------- Grid topology --
If(c, v) == IF c THEN <<v>> ELSE <<>>

\* The appends of get_neighbor_indices, in their order, given the outcome of
\* its six border tests.
NeighborAppends(idx, h, w, xm, xp, ym, yp, zp, zm) ==
    If(xm, idx - 1) \o If(xp, idx + 1)
    \o If(ym, idx - w) \o If(yp, idx + w)
    \o If(xm /\ ym, idx - w - 1) \o If(xp /\ ym, idx - w + 1)
    \o If(xm /\ yp, idx + w - 1) \o If(xp /\ yp, idx + w + 1)
    \o If(zp, idx + w * h) \o If(zm, idx - w * h)
    \o If(zp /\ xm, idx + w * h - 1) \o If(zp /\ xp, idx + w * h + 1)
    \o If(zp /\ ym, idx + w * h - w) \o If(zp /\ yp, idx + w * h + w)
    \o If(zp /\ xm /\ ym, idx + w * h - 1 - w)
    \o If(zp /\ xp /\ ym, idx + w * h + 1 - w)
    \o If(zp /\ xm /\ yp, idx + w * h - 1 + w)
    \o If(zp /\ xp /\ yp, idx + w * h + 1 + w)
    \o If(zm /\ xm, idx - w * h - 1) \o If(zm /\ xp, idx - w * h + 1)
    \o If(zm /\ ym, idx - w * h - w) \o If(zm /\ yp, idx - w * h + w)
    \o If(zm /\ xm /\ ym, idx - w * h - 1 - w)
    \o If(zm /\ xp /\ ym, idx - w * h + 1 - w)
    \o If(zm /\ xm /\ yp, idx - w * h - 1 + w)
    \o If(zm /\ xp /\ yp, idx - w * h + 1 + w)

\* faulty variant: the left-border test with > in place of >=, so that no cell of
\* the first column is a neighbour
get_neighbor_indices_StrictLeft(idx, h, w, d) ==
    NeighborAppends(idx, h, w,
        (idx % w) - 1 > 0,
        (idx % w) + 1 < w,
        ((idx \div w) % h) - 1 >= 0,
        ((idx \div w) % h) + 1 < h,
        idx + w * h < h * w * d,
        idx - w * h >= 0)

\* faulty variant: the lower-row test without "% H", which no cell beyond the first
\* layer passes
get_neighbor_indices_NoModH(idx, h, w, d) ==
    NeighborAppends(idx, h, w,
        (idx % w) - 1 >= 0,
        (idx % w) + 1 < w,
        ((idx \div w) % h) - 1 >= 0,
        (idx \div w) + 1 < h,
        idx + w * h < h * w * d,
        idx - w * h >= 0)

get_neighbor_indices(idx, h, w, d) ==
    NeighborAppends(idx, h, w,
        (idx % w) - 1 >= 0,
        (idx % w) + 1 < w,
        ((idx \div w) % h) - 1 >= 0,
        ((idx \div w) % h) + 1 < h,
        idx + w * h < h * w * d,
        idx - w * h >= 0)

\* ------------------------------------------------------------ Heuristic --
Abs(a) == IF a < 0 THEN -a ELSE a
Min2(a, b) == IF a < b THEN a ELSE b
Max2(a, b) == IF a < b THEN b ELSE a

RECURSIVE SqrtSearch(_, _, _)
\* the largest r in lo..hi with r * r <= m (lo * lo <= m < (hi + 1)^2)
SqrtSearch(m, lo, hi) ==
    IF lo = hi THEN lo
    ELSE LET mid == (lo + hi + 1) \div 2
         IN  IF mid * mid <= m THEN SqrtSearch(m, mid, hi)
             ELSE SqrtSearch(m, lo, mid - 1)

\* no grid of the model has a side longer than DimLimit
DimLimit ==
    Max2(Max2(Max2(MaxDim, MaxUDim), Max2(MaxBatchDim, MaxMarkerDim)),
         Max2(Max2(MaxNbDim, MaxCdDim), Max2(MaxSparseDim, MaxDesignDim)))

\* 0.001 * np.sqrt(s) in units of 10^-6, rounded down; tabulated for the
\* sums of squares that occur in the grids of the model
EucTable ==
    [s \in 0 .. 3 * DimLimit * DimLimit |->
        SqrtSearch(1000000 * s, 0, 1000 * (s + 1))]
EucTerm(s) == EucTable[s]

\* the local h of line 96: dxdydz.sum() - dxdydz.min(), in cells
chebyshev_h(idx, goal, w, h) ==
    LET dx == Abs(LocX(idx, w) - LocX(goal, w))
        dy == Abs(LocY(idx, h, w) - LocY(goal, h, w))
        dz == Abs(LocZ(idx, h, w) - LocZ(goal, h, w))
    IN  (dx + dy + dz) - Min2(dx, Min2(dy, dz))

\* loc, goal_loc, dxdydz, h, euc and h + 0.001 * euc, in units of 10^-6
compute_chebyshev_distance(idx, goal, w, h) ==
    LET dx == Abs(LocX(idx, w) - LocX(goal, w))
        dy == Abs(LocY(idx, h, w) - LocY(goal, h, w))
        dz == Abs(LocZ(idx, h, w) - LocZ(goal, h, w))
    IN  1000000 * chebyshev_h(idx, goal, w, h)
        + EucTerm(dx * dx + dy * dy + dz * dz)

\* ----------------------------------------------------- Trace extraction --
\* faulty variant: the history written at [x, y, z] instead of [y, x, z]
get_history_Transposed(close, h, w, d) ==
    {<<LocX(idx, w), LocY(idx, h, w), LocZ(idx, h, w)>> : idx \in DOMAIN close}

get_history(close, h, w, d) == {OutPos(idx, h, w) : idx \in DOMAIN close}

RECURSIVE Chain(_, _, _)
\* the cells backtrack appends from cur on, following parent_list[current_idx]
\* until it is None; fuel bounds the walk of the model
Chain(parent, cur, fuel) ==
    IF cur = NoParent \/ fuel = 0 THEN <<>>
    ELSE <<cur>> \o Chain(parent, parent[cur], fuel - 1)

\* faulty variant: the walk stops at the start cell without appending it
backtrack_SkipStart(parent, goal, h, w, d) ==
    LET path == Chain(parent, goal, h * w * d + 1)
    IN  {OutPos(path[i], h, w) : i \in 1 .. Len(path) - 1}

backtrack(parent, goal, h, w, d) ==
    LET path == Chain(parent, goal, h * w * d + 1)
    IN  {OutPos(path[i], h, w) : i \in 1 .. Len(path)}

\* -------------------------------------------------- Single-instance solver --
\* pred_cost.flatten('F'): the cost read for a flat index
UnflattenF(idx, h, w) == <<idx % h, (idx \div h) % w, idx \div (h * w)>>
pred_cost_vct(pred_cost, idx, h, w) == pred_cost[UnflattenF(idx, h, w)]
\* map_design.flatten('F'): whether the value at a flat index is 1
map_design_vct(map_design, idx, h, w) == UnflattenF(idx, h, w) \in map_design

\* np.argwhere(m.flatten('F')).item(): defined for exactly one flagged cell
\* faulty variant: the first flagged cell is taken when several are flagged
ItemOk_First(marker) == Cardinality(marker) >= 1

ItemOk(marker) == Cardinality(marker) = 1
Item(marker, h, w, d) == FlattenF(CHOOSE p \in marker : TRUE, h, w, d)

\* faulty variant: the heuristic term of the selected cell is not subtracted
FNew_NoCorrection(f_selected, sel, nei, goal, cost, g, h, w) ==
    f_selected
    + g * cost * 1000000
    + (2 - g) * compute_chebyshev_distance(nei, goal, w, h)

\* f_new of lines 193-199, in units of 10^-6 / 2
FNew(f_selected, sel, nei, goal, cost, g, h, w) ==
    f_selected
    - (2 - g) * compute_chebyshev_distance(sel, goal, w, h)
    + g * cost * 1000000
    + (2 - g) * compute_chebyshev_distance(nei, goal, w, h)

\* faulty variant: the test against the closed list is left out
Cond_Reopen(open, close, nei, f_new) ==
    \/ nei \notin DOMAIN open
    \/ (nei \in DOMAIN open /\ open[nei] > f_new)

\* faulty variant: an open neighbour is relaxed when f_new equals its stored f value
Cond_NonStrict(open, close, nei, f_new) ==
    \/ (nei \notin DOMAIN open /\ nei \notin DOMAIN close)
    \/ (nei \in DOMAIN open /\ open[nei] >= f_new)

\* faulty variant: a closed neighbour with a larger stored f value is relaxed too
Cond_ClosedImproves(open, close, nei, f_new) ==
    \/ (nei \notin DOMAIN open /\ nei \notin DOMAIN close)
    \/ (nei \in DOMAIN open /\ open[nei] > f_new)
    \/ (nei \in DOMAIN close /\ close[nei] > f_new)

\* cond of lines 202-206
Cond(open, close, nei, f_new) ==
    \/ (nei \notin DOMAIN open /\ nei \notin DOMAIN close)
    \/ (nei \in DOMAIN open /\ open[nei] > f_new)

\* faulty variant: the test of line 192 is active, so that only neighbours whose
\* map design value is 1 are relaxed
Relax_Filtered(st, sel, f_selected, nei, goal, cost, passable, g, h, w) ==
    LET f_new == FNew(f_selected, sel, nei, goal, cost, g, h, w)
    IN  IF passable /\ Cond(st.open, st.close, nei, f_new)
        THEN [st EXCEPT !.open = (nei :> f_new) @@ st.open,
                        !.parent = (nei :> sel) @@ st.parent]
        ELSE st

\* faulty variant: line 213 with its two indices exchanged
Relax_ParentSwapped(st, sel, f_selected, nei, goal, cost, passable, g, h, w) ==
    LET f_new == FNew(f_selected, sel, nei, goal, cost, g, h, w)
    IN  IF Cond(st.open, st.close, nei, f_new)
        THEN [st EXCEPT !.open = (nei :> f_new) @@ st.open,
                        !.parent = (sel :> nei) @@ st.parent]
        ELSE st

\* faulty variant: line 213 outside the "if cond:" block, so that the parent is
\* recorded for every neighbour
Relax_ParentAlways(st, sel, f_selected, nei, goal, cost, passable, g, h, w) ==
    LET f_new == FNew(f_selected, sel, nei, goal, cost, g, h, w)
    IN  IF Cond(st.open, st.close, nei, f_new)
        THEN [st EXCEPT !.open = (nei :> f_new) @@ st.open,
                        !.parent = (nei :> sel) @@ st.parent]
        ELSE [st EXCEPT !.parent = (nei :> sel) @@ st.parent]

\* one pass of the body of the for loop, lines 190-213; passable is
\* map_design_vct[idx_nei] == 1, which the commented-out line 192 leaves unread
Relax(st, sel, f_selected, nei, goal, cost, passable, g, h, w) ==
    LET f_new == FNew(f_selected, sel, nei, goal, cost, g, h, w)
    IN  IF Cond(st.open, st.close, nei, f_new)
        THEN [st EXCEPT !.open = (nei :> f_new) @@ st.open,
                        !.parent = (nei :> sel) @@ st.parent]
        ELSE st

RECURSIVE Expand(_, _, _, _, _, _, _, _, _, _, _)
\* the for loop over the neighbours neis[i], neis[i+1], ...
Expand(st, neis, i, sel, f_selected, goal, pred_cost, map_design, g, h, w) ==
    IF i > Len(neis) THEN st
    ELSE Expand(Relax(st, sel, f_selected, neis[i], goal,
                      pred_cost_vct(pred_cost, neis[i], h, w),
                      map_design_vct(map_design, neis[i], h, w), g, h, w),
                neis, i + 1, sel, f_selected, goal, pred_cost, map_design,
                g, h, w)

\* faulty variant: a plain dict in place of the priority queue, popitem returning
\* any entry
PopCandidates_Any(open) == DOMAIN open

\* the entries popitem may return: those of minimal priority
PopCandidates(open) ==
    {k \in DOMAIN open : \A j \in DOMAIN open : open[k] <= open[j]}

Remove(f, k) == [j \in DOMAIN f \ {k} |-> f[j]]

\* faulty variant: the popped cell is not added to the closed list
Iteration_NoClose(st, sel, goal, pred_cost, map_design, g, h, w, d) ==
    LET f_selected == st.open[sel]
        popped == [st EXCEPT !.open = Remove(st.open, sel)]
    IN  Expand(popped, get_neighbor_indices(sel, h, w, d), 1, sel, f_selected,
               goal, pred_cost, map_design, g, h, w)

\* one iteration of the while loop that selects sel, lines 186-213
Iteration(st, sel, goal, pred_cost, map_design, g, h, w, d) ==
    LET f_selected == st.open[sel]
        popped == [st EXCEPT !.open = Remove(st.open, sel),
                             !.close = (sel :> f_selected) @@ st.close]
    IN  Expand(popped, get_neighbor_indices(sel, h, w, d), 1, sel, f_selected,
               goal, pred_cost, map_design, g, h, w)

RECURSIVE SoloRun(_, _, _, _, _, _, _, _)
\* solve_single as a function of its arguments: the (history, path) pairs it
\* can return from the loop state st, one per way popitem may break ties
SoloRun(st, goal, pred_cost, map_design, g, h, w, d) ==
    IF goal \in DOMAIN st.close
    THEN {<<get_history(st.close, h, w, d),
            backtrack(st.parent, goal, h, w, d)>>}
    ELSE IF DOMAIN st.open = {}
    THEN {<<{}, {}>>}
    ELSE UNION {SoloRun(Iteration(st, sel, goal, pred_cost, map_design,
                                  g, h, w, d),
                        goal, pred_cost, map_design, g, h, w, d) :
                    sel \in PopCandidates(st.open)}

solve_single(pred_cost, start_map, goal_map, map_design, g, h, w, d) ==
    LET s == Item(start_map, h, w, d)
    IN  SoloRun([open |-> (s :> 0), close |-> Empty,
                 parent |-> (s :> NoParent)],
                Item(goal_map, h, w, d), pred_cost, map_design, g, h, w, d)

\* ------------------------------------------------------------ the inputs --
Shapes(maxdim, maxcells) ==
    {s \in (1 .. maxdim) \X (1 .. maxdim) \X (1 .. maxdim) :
        s[1] * s[2] * s[3] <= maxcells}

SubsetsUpTo(S, k) == {T \in SUBSET S : Cardinality(T) <= k}

\* marker volumes with exactly one flagged cell
OneFlagged(P) == {{p} : p \in P}
\* marker volumes with up to MaxFlagged flagged cells
AnyFlagged(P) == SubsetsUpTo(P, MaxFlagged)

\* cost volumes: cost 1 everywhere but on one cell, which is free (cost 0)
\* or expensive (cost MaxCost)
VariedCosts(P) ==
    {[p \in P |-> IF p = q THEN v ELSE 1] : q \in P, v \in {0, 1, MaxCost}}
\* the cost volume with cost 1 on every cell
UnitCosts(P) == {[p \in P |-> 1]}
\* cost volumes with the same cost on every cell
UniformCosts(P) == {[p \in P |-> v] : v \in 0 .. MaxCost}

\* cost volumes with cost 0 everywhere but on one expensive cell (cost
\* MaxCost) and on one cell of cost 1
SparseCosts(P) ==
    {[p \in P |-> IF p = q THEN MaxCost ELSE IF p = r THEN 1 ELSE 0] :
        q \in P, r \in P}

GRatios == {0, 1, 2}

MarkersOf(kind, P) == IF kind = "one" THEN OneFlagged(P) ELSE AnyFlagged(P)
\* map designs: every cell 1 ("free"), or any 0/1 volume
DesignsOf(kind, P) == IF kind = "free" THEN {P} ELSE SUBSET P
CostsOf(kind, P) ==
    IF kind = "varied" THEN VariedCosts(P)
    ELSE IF kind = "uniform" THEN UniformCosts(P)
    ELSE IF kind = "sparse" THEN SparseCosts(P) ELSE UnitCosts(P)

InitOf(shapes, sizes, markers, costs, designs, ratios, flags) ==
    \E s \in shapes, N \in sizes :
        LET P == Positions(s[1], s[2], s[3])
        IN  /\ H = s[1] /\ W = s[2] /\ D = s[3]
            /\ pred_costs \in [1 .. N -> CostsOf(costs, P)]
            /\ start_maps \in [1 .. N -> MarkersOf(markers, P)]
            /\ goal_maps \in [1 .. N -> MarkersOf(markers, P)]
            /\ map_designs \in [1 .. N -> DesignsOf(designs, P)]
            /\ store_intermediate_results \in flags
            /\ g2 \in ratios
            /\ pc = "pq_astar"
            /\ n = 0
            /\ histories = <<>> /\ path_maps = <<>>
            /\ outcome = [i \in 1 .. N |-> "none"]
            /\ output = NoOutput
            /\ start_idx = 0 /\ goal_idx = 0
            /\ open_list = Empty /\ close_list = Empty /\ parent_list = Empty
            /\ num_steps = 0
            /\ nb_idx = 0 /\ nb_out = <<>>
            /\ cd_idx = 0 /\ cd_goal = 0 /\ cd_out = NoCall

\* one instance, every shape up to MaxDim^3 with at most MaxCells cells
Init == InitOf(Shapes(MaxDim, MaxCells), {1}, "one", "varied", "free",
               GRatios, {FALSE})

\* one instance, uniform costs, every shape up to MaxUDim^3 with at most
\* MaxUCells cells
InitUniform == InitOf(Shapes(MaxUDim, MaxUCells), {1}, "one", "uniform",
                      "free", GRatios, {FALSE})

\* up to MaxBatch instances on small grids, every predicted cost 1, the
\* default g_ratio = 0.5
InitBatch == InitOf(Shapes(MaxBatchDim, MaxBatchCells), 1 .. MaxBatch,
                    "one", "unit", "free", {1}, {FALSE})

\* one instance whose markers flag any number of cells; either setting of
\* store_intermediate_results
InitMarkers == InitOf(Shapes(MaxMarkerDim, MaxMarkerCells), {1}, "any",
                      "uniform", "free", GRatios, BOOLEAN)

\* one instance whose cost volume is 0 but on two cells, every shape up to
\* MaxSparseDim^3 with at most MaxSparseCells cells
InitSparse == InitOf(Shapes(MaxSparseDim, MaxSparseCells), {1}, "one",
                     "sparse", "free", GRatios, {FALSE})

\* one instance with any 0/1 map design, every predicted cost 1, every shape
\* up to MaxDesignDim^3 with at most MaxDesignCells cells
InitDesigns == InitOf(Shapes(MaxDesignDim, MaxDesignCells), {1}, "one",
                      "unit", "any", GRatios, {FALSE})

BatchSize == Len(pred_costs)

\* ----------------------------------------------------------- Batch driver --
\* faulty variant: the assertion is left out
PqAstar_NoAssert ==
    /\ pc = "pq_astar"
    /\ pc' = "for"
    /\ n' = 1
    /\ histories' = [i \in 1 .. BatchSize |-> {}]
    /\ path_maps' = [i \in 1 .. BatchSize |-> {}]
    /\ UNCHANGED <<inputs, locals, outcome, output, probe>>

\* pq_astar, lines 136-145: the assertion and the zero-filled outputs
PqAstar ==
    /\ pc = "pq_astar"
    /\ IF store_intermediate_results
       THEN /\ pc' = "error"
            /\ UNCHANGED <<n, histories, path_maps>>
       ELSE /\ pc' = "for"
            /\ n' = 1
            /\ histories' = [i \in 1 .. BatchSize |-> {}]
            /\ path_maps' = [i \in 1 .. BatchSize |-> {}]
    /\ UNCHANGED <<inputs, locals, outcome, output, probe>>

\* faulty variant: the closed list is a module-level object that is not made afresh
SolveSingle_StaleClosed ==
    /\ pc = "for"
    /\ n <= BatchSize
    /\ IF ItemOk(start_maps[n]) /\ ItemOk(goal_maps[n])
       THEN LET s == Item(start_maps[n], H, W, D)
            IN  /\ start_idx' = s
                /\ goal_idx' = Item(goal_maps[n], H, W, D)
                /\ open_list' = (s :> 0)
                /\ close_list' = close_list
                /\ parent_list' = (s :> NoParent)
                /\ num_steps' = 0
                /\ pc' = "loop"
       ELSE /\ pc' = "error"
            /\ UNCHANGED locals
    /\ UNCHANGED <<inputs, n, histories, path_maps, outcome, output, probe>>

\* line 146 entering solve_single for instance n, lines 167-181
SolveSingle ==
    /\ pc = "for"
    /\ n <= BatchSize
    /\ IF ItemOk(start_maps[n]) /\ ItemOk(goal_maps[n])
       THEN LET s == Item(start_maps[n], H, W, D)
            IN  /\ start_idx' = s
                /\ goal_idx' = Item(goal_maps[n], H, W, D)
                /\ open_list' = (s :> 0)
                /\ close_list' = Empty
                /\ parent_list' = (s :> NoParent)
                /\ num_steps' = 0
                /\ pc' = "loop"
       ELSE /\ pc' = "error"
            /\ UNCHANGED locals
    /\ UNCHANGED <<inputs, n, histories, path_maps, outcome, output, probe>>

\* one pass of the while loop, lines 182-213 (with the store of line 147
\* when it returns "goal not found")
LoopIteration ==
    /\ pc = "loop"
    /\ goal_idx \notin DOMAIN close_list
    /\ IF DOMAIN open_list = {}
       THEN /\ histories' = [histories EXCEPT ![n] = {}]
            /\ path_maps' = [path_maps EXCEPT ![n] = {}]
            /\ outcome' = [outcome EXCEPT ![n] = "notfound"]
            /\ n' = n + 1
            /\ pc' = "for"
            /\ UNCHANGED locals
       ELSE \E sel \in PopCandidates(open_list) :
                \E st \in {Iteration([open |-> open_list, close |-> close_list,
                                      parent |-> parent_list],
                                     sel, goal_idx, pred_costs[n],
                                     map_designs[n], g2, H, W, D)} :
                    /\ open_list' = st.open
                    /\ close_list' = st.close
                    /\ parent_list' = st.parent
                    /\ num_steps' = num_steps + 1
                    /\ UNCHANGED <<start_idx, goal_idx, n, histories,
                                   path_maps, outcome, pc>>
    /\ UNCHANGED <<inputs, output, probe>>

\* the loop ends with the goal closed: lines 215-217 and the store of line 147
LoopExit ==
    /\ pc = "loop"
    /\ goal_idx \in DOMAIN close_list
    /\ histories' = [histories EXCEPT ![n] = get_history(close_list, H, W, D)]
    /\ path_maps' = [path_maps EXCEPT
                        ![n] = backtrack(parent_list, goal_idx, H, W, D)]
    /\ outcome' = [outcome EXCEPT ![n] = "found"]
    /\ n' = n + 1
    /\ pc' = "for"
    /\ UNCHANGED <<inputs, locals, output, probe>>

\* line 155
Return ==
    /\ pc = "for"
    /\ n > BatchSize
    /\ output' = [histories |-> histories, paths |-> path_maps, ok |-> TRUE]
    /\ pc' = "returned"
    /\ UNCHANGED <<inputs, locals, n, histories, path_maps, outcome, probe>>

Next == PqAstar \/ SolveSingle \/ LoopIteration \/ LoopExit \/ Return

Spec == Init /\ [][Next]_vars
SpecUniform == InitUniform /\ [][Next]_vars
SpecBatch == InitBatch /\ [][Next]_vars
SpecMarkers == InitMarkers /\ [][Next]_vars
SpecSparse == InitSparse /\ [][Next]_vars
SpecDesigns == InitDesigns /\ [][Next]_vars

\* ------------------------------------------- get_neighbor_indices alone --
InitNb ==
    /\ H \in 1 .. MaxNbDim /\ W \in 1 .. MaxNbDim /\ D \in 1 .. MaxNbDim
    /\ nb_idx \in 0 .. H * W * D - 1
    /\ nb_out = <<>>
    /\ cd_idx = 0 /\ cd_goal = 0 /\ cd_out = NoCall
    /\ pc = "nb_call"
    /\ pred_costs = <<>> /\ start_maps = <<>> /\ goal_maps = <<>>
    /\ map_designs = <<>>
    /\ store_intermediate_results = FALSE
    /\ g2 = 1
    /\ n = 0
    /\ histories = <<>> /\ path_maps = <<>>
    /\ outcome = <<>>
    /\ output = NoOutput
    /\ start_idx = 0 /\ goal_idx = 0
    /\ open_list = Empty /\ close_list = Empty /\ parent_list = Empty
    /\ num_steps = 0

NbCall ==
    /\ pc = "nb_call"
    /\ nb_out' = get_neighbor_indices(nb_idx, H, W, D)
    /\ pc' = "nb_done"
    /\ UNCHANGED <<inputs, locals, n, histories, path_maps, outcome, output,
                   nb_idx, cd_idx, cd_goal, cd_out>>

NextNb == NbCall

SpecNeighbors == InitNb /\ [][NextNb]_vars

\* ------------------------------------- compute_chebyshev_distance alone --
InitCd ==
    /\ H \in 1 .. MaxCdDim /\ W \in 1 .. MaxCdDim /\ D \in 1 .. MaxCdDim
    /\ cd_idx \in 0 .. H * W * D - 1
    /\ cd_goal \in 0 .. H * W * D - 1
    /\ cd_out = NoCall
    /\ pc = "cd_call"
    /\ nb_idx = 0 /\ nb_out = <<>>
    /\ pred_costs = <<>> /\ start_maps = <<>> /\ goal_maps = <<>>
    /\ map_designs = <<>>
    /\ store_intermediate_results = FALSE
    /\ g2 = 1
    /\ n = 0
    /\ histories = <<>> /\ path_maps = <<>>
    /\ outcome = <<>>
    /\ output = NoOutput
    /\ start_idx = 0 /\ goal_idx = 0
    /\ open_list = Empty /\ close_list = Empty /\ parent_list = Empty
    /\ num_steps = 0

CdCall ==
    /\ pc = "cd_call"
    /\ cd_out' = [h |-> chebyshev_h(cd_idx, cd_goal, W, H),
                  ret |-> compute_chebyshev_distance(cd_idx, cd_goal, W, H)]
    /\ pc' = "cd_done"
    /\ UNCHANGED <<inputs, locals, n, histories, path_maps, outcome, output,
                   nb_idx, nb_out, cd_idx, cd_goal>>

NextCd == CdCall

SpecHeuristic == InitCd /\ [][NextCd]_vars

\* ================================================================ claims ==
Instances == DOMAIN outcome
Found(i) == outcome[i] = "found"
\* the instance whose search the local variables belong to
Searching == pc = "loop"
\* the locals are those of instance n - 1, whose search has just ended
JustEnded == pc \in {"for", "returned"} /\ n > 1

\* the only flagged position of a marker volume
Flagged(marker) == CHOOSE p \in marker : TRUE
\* max-norm distance of two positions
Chebyshev(p, q) ==
    Max2(Abs(p[1] - q[1]), Max2(Abs(p[2] - q[2]), Abs(p[3] - q[3])))

\* C1 (as claimed): whenever a path is found, the path volume is 1 at the
\* position flagged in the start marker and at the position flagged in the
\* goal marker.
C1_PathMarksStartAndGoal ==
    \A i \in Instances :
        Found(i) => /\ start_maps[i] \subseteq path_maps[i]
                    /\ goal_maps[i] \subseteq path_maps[i]

\* C2 (as claimed): with g_ratio = 0 the number of marked path cells is the
\* Chebyshev distance of the flagged start and goal positions plus one.
C2_PathCountIsChebyshevPlusOne ==
    \A i \in Instances :
        (Found(i) /\ g2 = 0) =>
            Cardinality(path_maps[i])
                = Chebyshev(Flagged(start_maps[i]), Flagged(goal_maps[i])) + 1

\* C3: when a path is found, every cell marked in the path volume is marked
\* in the history volume, and when the loop ends every cell of the goal's
\* parent chain is in the closed set.
C3_HistoryCoversPath ==
    /\ \A i \in Instances : Found(i) => path_maps[i] \subseteq histories[i]
    /\ (Searching /\ goal_idx \in DOMAIN close_list) =>
            LET chain == Chain(parent_list, goal_idx, H * W * D + 1)
            IN  \A k \in 1 .. Len(chain) : chain[k] \in DOMAIN close_list

C3_Witness ==
    \E i \in Instances :
        /\ Found(i)
        /\ Cardinality(path_maps[i]) >= 3
        /\ path_maps[i] # histories[i]

\* C4: when start and goal markers flag the same cell, the loop runs exactly
\* one iteration, the path volume has exactly one marked cell, and the
\* start's parent stays the sentinel.
C4_StartIsGoal ==
    /\ (Searching /\ start_idx = goal_idx) =>
            /\ num_steps <= 1
            /\ (num_steps = 1 => goal_idx \in DOMAIN close_list)
            /\ parent_list[start_idx] = NoParent
    /\ \A i \in Instances :
            (Found(i) /\ start_maps[i] = goal_maps[i]) =>
                /\ Cardinality(path_maps[i]) = 1
                /\ (i = n - 1 => /\ num_steps = 1
                                 /\ parent_list[start_idx] = NoParent)

C4_Witness ==
    /\ JustEnded
    /\ Found(n - 1)
    /\ start_maps[n - 1] = goal_maps[n - 1]
    /\ H * W * D > 1
    /\ DOMAIN open_list # {}


\* C5: the loop terminates within H*W*D iterations: the iteration count never
\* exceeds H*W*D and every iteration raises it by one while moving exactly one
\* cell that was not closed before from Open to Closed; the loop ends either
\* with the goal in Closed or with Open empty, never both, and in the latter
\* case the history and path volumes are all-zero.
C5_Inv ==
    /\ Searching =>
            /\ num_steps <= H * W * D
            /\ num_steps = Cardinality(DOMAIN close_list)
    /\ JustEnded =>
            /\ outcome[n - 1] \in {"found", "notfound"}
            /\ Found(n - 1) <=> goal_idx \in DOMAIN close_list
            /\ outcome[n - 1] = "notfound" <=>
                    (goal_idx \notin DOMAIN close_list /\ DOMAIN open_list = {})
            /\ num_steps <= H * W * D
    /\ \A i \in Instances :
            outcome[i] = "notfound" => (histories[i] = {} /\ path_maps[i] = {})

C5_Step ==
    (pc = "loop" /\ pc' = "loop") =>
        \E c \in DOMAIN open_list :
            /\ c \notin DOMAIN close_list
            /\ DOMAIN close_list' = DOMAIN close_list \cup {c}
            /\ c \notin DOMAIN open_list'
            /\ num_steps' = num_steps + 1

C5_LoopTerminates == []C5_Inv /\ [][C5_Step]_vars

C5_Witness ==
    /\ pc = "returned"
    /\ Found(1)
    /\ num_steps = H * W * D
    /\ num_steps >= 4
    /\ DOMAIN open_list = {}

\* C6: get_neighbor_indices returns, without duplicates and without idx,
\* exactly the flat indices of the in-bounds cells that differ from idx by
\* -1, 0 or +1 on each axis under idx = x + W*y + W*H*z (at most 26 cells).
Range(seq) == {seq[k] : k \in 1 .. Len(seq)}

MooreNeighbors(idx, h, w, d) ==
    LET x == idx % w
        y == (idx \div w) % h
        z == idx \div (w * h)
    IN  {x2 + w * y2 + w * h * z2 :
            <<x2, y2, z2>> \in
                {c \in (0 .. w - 1) \X (0 .. h - 1) \X (0 .. d - 1) :
                    /\ Abs(c[1] - x) <= 1
                    /\ Abs(c[2] - y) <= 1
                    /\ Abs(c[3] - z) <= 1
                    /\ c # <<x, y, z>>}}

C6_NeighborsAreMoore ==
    pc = "nb_done" =>
        /\ Range(nb_out) = MooreNeighbors(nb_idx, H, W, D)
        /\ Len(nb_out) = Cardinality(Range(nb_out))
        /\ Len(nb_out) <= 26
        /\ nb_idx \notin Range(nb_out)
        /\ Range(nb_out) \subseteq 0 .. H * W * D - 1

C6_Witness == pc = "nb_done" /\ Len(nb_out) = 26

\* C7: solve_single fails, returning no volumes, whenever the start or the
\* goal marker has zero or several flagged cells, and searches only when each
\* has exactly one.
WellFormed(i) ==
    Cardinality(start_maps[i]) = 1 /\ Cardinality(goal_maps[i]) = 1

C7_Inv ==
    /\ \A i \in Instances :
            ~WellFormed(i) =>
                /\ outcome[i] = "none"
                /\ output = NoOutput
                /\ pc # "returned"
                /\ ~(pc = "loop" /\ n = i)
    /\ (pc = "error" /\ ~store_intermediate_results) => ~WellFormed(n)

C7_Step ==
    (pc = "for" /\ n <= BatchSize) =>
        /\ ~WellFormed(n) => (pc' = "error" /\ output' = NoOutput)
        /\ WellFormed(n) => pc' = "loop"

C7_MalformedMarkerFails == []C7_Inv /\ [][C7_Step]_vars

C7_Witness ==
    /\ pc = "error"
    /\ ~store_intermediate_results
    /\ Cardinality(start_maps[1]) = 1
    /\ Cardinality(goal_maps[1]) = 2

\* C8: with store_intermediate_results = True pq_astar fails before any
\* instance is solved and before any output is produced.
C8_StoreIntermediateRejected ==
    store_intermediate_results =>
        /\ pc \in {"pq_astar", "error"}
        /\ n = 0
        /\ \A i \in Instances : outcome[i] = "none"
        /\ histories = <<>> /\ path_maps = <<>>
        /\ output = NoOutput
        /\ open_list = Empty /\ close_list = Empty /\ parent_list = Empty

C8_Witness ==
    /\ store_intermediate_results
    /\ pc = "error"
    /\ WellFormed(1)

\* C9: for W=3, H=3, D=1, all predicted costs 1, start (0,0,0), goal (2,2,0),
\* weighting 0.5, the path volume has exactly the 3 marked cells (0,0,0),
\* (1,1,0) and (2,2,0).
IsExample ==
    /\ H = 3 /\ W = 3 /\ D = 1
    /\ \A p \in DOMAIN pred_costs[1] : pred_costs[1][p] = 1
    /\ start_maps[1] = {<<0, 0, 0>>}
    /\ goal_maps[1] = {<<2, 2, 0>>}
    /\ g2 = 1

C9_ExamplePath ==
    IsExample =>
        /\ outcome[1] # "notfound"
        /\ Found(1) => /\ path_maps[1] = {<<0, 0, 0>>, <<1, 1, 0>>, <<2, 2, 0>>}
                       /\ Cardinality(path_maps[1]) = 3
        /\ pc = "returned" =>
                output.paths[1] = {<<0, 0, 0>>, <<1, 1, 0>>, <<2, 2, 0>>}

C9_Witness == IsExample /\ pc = "returned" /\ output.ok

\* C11 (as claimed): for every pair of cells of a grid, the primary term of
\* compute_chebyshev_distance (sum of the absolute per-axis differences minus
\* the smallest of them) is the max-norm distance of the two cells, the
\* minimum number of 26-connected steps between them.
C11_PrimaryTermIsChebyshev ==
    pc = "cd_done" =>
        cd_out.h = Chebyshev(Loc(cd_idx, H, W), Loc(cd_goal, H, W))

\* C12 (as claimed): the cell linearization is the same everywhere in
\* solve_single: the flat index under which the markers and the cost volume
\* are read for a position (r, c, d) is decoded by get_history and backtrack
\* to the output position (r, c, d), and its x, y, z in get_neighbor_indices
\* and compute_chebyshev_distance are c, r, d.
C12_OneLinearization ==
    Searching =>
        /\ OutPos(start_idx, H, W) \in start_maps[n]
        /\ OutPos(goal_idx, H, W) \in goal_maps[n]
        /\ \A p \in Positions(H, W, D) :
                LET idx == FlattenF(p, H, W, D)
                IN  /\ OutPos(idx, H, W) = p
                    /\ Loc(idx, H, W) = <<p[2], p[1], p[3]>>
                    /\ get_history((idx :> 0), H, W, D) = {p}
                    /\ backtrack((idx :> NoParent), idx, H, W, D) = {p}
        /\ \A idx \in 0 .. H * W * D - 1 :
                pred_cost_vct(pred_costs[n], idx, H, W)
                    = pred_costs[n][OutPos(idx, H, W)]

\* the neighbours of idx, as a set
Neighbors(idx) == Range(get_neighbor_indices(idx, H, W, D))
\* f_new as the expansion of sel computes it for its neighbour nei
FNewOf(sel, nei) ==
    FNew(close_list[sel], sel, nei, goal_idx,
         pred_cost_vct(pred_costs[n], nei, H, W), g2, H, W)

\* C13: during the loop Open and Closed are disjoint, Closed only grows, and
\* a closed cell is never put back into Open nor has its stored f-score or
\* its parent changed, even when an expansion computes a smaller f_new for
\* it; the popped cell is never already a key of Closed.
C13_Inv ==
    Searching => DOMAIN open_list \cap DOMAIN close_list = {}

C13_Step ==
    (pc = "loop" /\ pc' = "loop") =>
        /\ \A c \in DOMAIN close_list :
                /\ c \in DOMAIN close_list'
                /\ close_list'[c] = close_list[c]
                /\ parent_list'[c] = parent_list[c]
                /\ c \notin DOMAIN open_list'
        /\ \A c \in DOMAIN close_list' \ DOMAIN close_list :
                /\ c \in DOMAIN open_list
                /\ close_list'[c] = open_list[c]

C13_ClosedIsFinal == []C13_Inv /\ [][C13_Step]_vars

\* a closed cell c has a closed neighbour s whose expansion computed an f_new
\* below the f-score stored for c (so c was closed when s was expanded)
C13_Witness ==
    /\ Searching
    /\ \E s \in DOMAIN close_list :
         \E c \in Neighbors(s) \cap DOMAIN close_list :
            /\ FNewOf(s, c) < close_list[c]
            /\ parent_list[c] # s

\* C14: during the loop the start cell's parent is the sentinel None and no
\* other cell has it, and every cell in Open or Closed has an entry in the
\* parent map whose value, for a cell other than the start, is a cell of
\* Closed.
C14_ParentMapShape ==
    Searching =>
        /\ start_idx \in DOMAIN parent_list
        /\ parent_list[start_idx] = NoParent
        /\ \A c \in DOMAIN parent_list :
                parent_list[c] = NoParent => c = start_idx
        /\ DOMAIN open_list \cup DOMAIN close_list \subseteq DOMAIN parent_list
        /\ \A c \in (DOMAIN open_list \cup DOMAIN close_list) \ {start_idx} :
                parent_list[c] \in DOMAIN close_list

\* the start has been expanded, has a neighbour in Open and one in Closed,
\* and some cell's parent is not the start
C14_Witness ==
    /\ Searching
    /\ Neighbors(start_idx) \cap DOMAIN open_list # {}
    /\ Neighbors(start_idx) \cap DOMAIN close_list # {}
    /\ \E c \in DOMAIN open_list : parent_list[c] # start_idx

\* the f-score stored for a cell of Open or Closed
FScore(c) == IF c \in DOMAIN open_list THEN open_list[c] ELSE close_list[c]
\* (1 - weighting) * h(c, goal), in the units of an f-score
HTerm(c) == (2 - g2) * compute_chebyshev_distance(c, goal_idx, W, H)
RECURSIVE GScore(_, _)
\* g along the current parent chain of c: g(start) = 0 and
\* g(c) = g(parent(c)) + weighting * cost[c], in the units of an f-score
GScore(c, fuel) ==
    IF c = start_idx \/ fuel = 0 THEN 0
    ELSE GScore(parent_list[c], fuel - 1)
         + g2 * pred_cost_vct(pred_costs[n], c, H, W) * 1000000

\* C15 (as claimed): during the loop the f-score stored for every cell in
\* Open or Closed, the start included, is g + (1 - weighting) * h(cell, goal)
\* with g accumulated along the cell's current parent chain.
C15_FScoreIsGPlusH ==
    Searching =>
        \A c \in DOMAIN open_list \cup DOMAIN close_list :
            FScore(c) = GScore(c, H * W * D) + HTerm(c)

\* C15 (amended): during the loop the f-score stored for every cell in Open
\* or Closed is g + (1 - weighting) * (h(cell, goal) - h(start, goal)): the
\* start is stored with 0, not with (1 - weighting) * h(start, goal), and
\* every other score carries that offset.
C15_FScoreIsGPlusHMinusStart ==
    Searching =>
        /\ FScore(start_idx) = 0
        /\ \A c \in DOMAIN open_list \cup DOMAIN close_list :
                FScore(c) = GScore(c, H * W * D) + HTerm(c) - HTerm(start_idx)

\* a cell two or more parent links away from the start has a score, with a
\* weighting that mixes costs and heuristic and a start that is not the goal
C15_Witness ==
    /\ Searching
    /\ g2 = 1
    /\ HTerm(start_idx) > 0
    /\ \E c \in DOMAIN open_list :
            /\ parent_list[c] # start_idx
            /\ GScore(c, H * W * D) > 0
            /\ HTerm(c) > 0

\* C16 (as claimed): the parent map is append-only during a run of
\* solve_single: once a cell has a parent entry, no later step of the search
\* changes that entry.
C16_Step ==
    (pc = "loop" /\ pc' = "loop") =>
        \A c \in DOMAIN parent_list :
            /\ c \in DOMAIN parent_list'
            /\ parent_list'[c] = parent_list[c]

C16_ParentAppendOnly == [][C16_Step]_vars

\* C16 (amended): during a run of solve_single no parent entry is removed, and
\* an entry changes only for a cell that is in Open before and after the
\* step and whose stored f-score the step strictly lowers; the new parent is
\* the cell closed by that step.
C16_AmendedStep ==
    (pc = "loop" /\ pc' = "loop") =>
        \A c \in DOMAIN parent_list :
            /\ c \in DOMAIN parent_list'
            /\ parent_list'[c] # parent_list[c] =>
                    /\ c \in DOMAIN open_list /\ c \in DOMAIN open_list'
                    /\ open_list'[c] < open_list[c]
                    /\ parent_list'[c] \in DOMAIN close_list' \ DOMAIN close_list

C16_ParentChangesOnlyOnImprovement == [][C16_AmendedStep]_vars

\* a cell's parent has been replaced: s and p are neighbours of the start
\* (in Open from the first iteration on with their final scores), s was
\* closed before p, and a neighbour c of s, which had a parent once s was
\* expanded, now has the parent p
C16_Witness ==
    /\ Searching
    /\ \E s \in Neighbors(start_idx) \cap DOMAIN close_list :
         \E p \in Neighbors(start_idx) \cap DOMAIN close_list :
            /\ close_list[s] < close_list[p]
            /\ \E c \in Neighbors(s) \cap DOMAIN parent_list :
                    parent_list[c] = p

\* C17: the history and path volumes solve_single returns depend on the map
\* design only through its shape: what a call returns is what the call with
\* the same costs, markers and weighting returns for every other map design
\* of that shape, so cells the design blocks are expanded and can be on the
\* path.
C17_DesignValuesUnread ==
    pc = "returned" =>
        \A i \in Instances :
            \A md \in SUBSET Positions(H, W, D) :
                <<output.histories[i], output.paths[i]>> \in
                    solve_single(pred_costs[i], start_maps[i], goal_maps[i],
                                 md, g2, H, W, D)

\* a path of three cells was returned for a design whose cells are all 0
C17_Witness ==
    /\ pc = "returned"
    /\ Found(1)
    /\ map_designs[1] = {}
    /\ Cardinality(output.paths[1]) >= 3
    /\ Cardinality(output.histories[1]) >= 3

\* the cost read for the cell of flat index c in the instance being solved
CostOf(c) == pred_cost_vct(pred_costs[n], c, H, W)
\* more than the cost of any path without repeated cells
Unreached == (MaxCost + 1) * H * W * D + 1
MinOver(S) == CHOOSE x \in S : \A y \in S : x <= y
RECURSIVE MinCost(_, _)
\* from dist, the least cost of reaching each cell from the start over
\* 26-connected paths (sum of the costs of the cells entered), after k more
\* rounds of relaxing every cell over its neighbours
MinCost(dist, k) ==
    IF k = 0 THEN dist
    ELSE MinCost([c \in DOMAIN dist |->
                    MinOver({dist[c]} \cup
                            {dist[m] + CostOf(c) : m \in Neighbors(c)})],
                 k - 1)
\* the least path cost from the start to every cell
MinCosts ==
    MinCost([c \in 0 .. H * W * D - 1 |->
                IF c = start_idx THEN 0 ELSE Unreached],
            H * W * D - 1)

C19_GoalIsClosed ==
    /\ (Searching /\ goal_idx \notin DOMAIN close_list) =>
            /\ DOMAIN open_list # {}
            /\ num_steps < H * W * D
    /\ \A i \in Instances : outcome[i] # "notfound"
    /\ pc = "returned" =>
            \A i \in Instances :
                /\ Found(i)
                /\ output.histories[i] # {}
                /\ output.paths[i] # {}

\* the goal was the last cell of the grid to be closed
C19_Witness ==
    /\ Searching
    /\ goal_idx \in DOMAIN close_list
    /\ DOMAIN open_list = {}
    /\ Cardinality(DOMAIN close_list) = H * W * D
    /\ H * W * D >= 6
    /\ start_idx # goal_idx

RECURSIVE Walk(_, _)
\* the cells the loop of backtrack visits from cur on, for as long as it
\* finds a parent entry and for at most fuel lookups
Walk(cur, fuel) ==
    IF cur = NoParent \/ fuel = 0 \/ cur \notin DOMAIN parent_list THEN <<>>
    ELSE <<cur>> \o Walk(parent_list[cur], fuel - 1)

\* C20: when the loop ends with the goal closed, backtrack terminates: the
\* walk along the parent entries from the goal visits no cell twice, finds
\* an entry for every cell it visits and reaches the start's sentinel within
\* H*W*D lookups, consecutive cells of the walk are 26-neighbours, and the
\* path volume is the set of the cells visited; every parent entry written
\* names a cell that is closed while the child is not yet closed.
C20_Inv ==
    /\ (Searching /\ goal_idx \in DOMAIN close_list) =>
            \E walk \in {Walk(goal_idx, H * W * D + 1)} :
                /\ Len(walk) >= 1
                /\ Len(walk) <= H * W * D
                /\ Cardinality(Range(walk)) = Len(walk)
                /\ walk[Len(walk)] = start_idx
                /\ parent_list[start_idx] = NoParent
                /\ \A k \in 1 .. Len(walk) - 1 :
                        /\ parent_list[walk[k]] = walk[k + 1]
                        /\ walk[k + 1] \in Neighbors(walk[k])
                        /\ walk[k] \in Neighbors(walk[k + 1])
                /\ backtrack(parent_list, goal_idx, H, W, D)
                        = {OutPos(walk[k], H, W) : k \in 1 .. Len(walk)}
    /\ (JustEnded /\ Found(n - 1)) =>
            Cardinality(path_maps[n - 1])
                = Len(Walk(goal_idx, H * W * D + 1))

C20_Step ==
    (pc = "loop" /\ pc' = "loop") =>
        \A c \in DOMAIN parent_list' :
            (c \notin DOMAIN parent_list \/ parent_list'[c] # parent_list[c]) =>
                /\ parent_list'[c] \in DOMAIN close_list'
                /\ c \notin DOMAIN close_list'

C20_BacktrackTerminates == []C20_Inv /\ [][C20_Step]_vars

\* the goal was closed at the end of a parent chain of four cells or more
C20_Witness ==
    /\ JustEnded /\ Found(n - 1)
    /\ Len(Walk(goal_idx, H * W * D + 1)) >= 4
    /\ Cardinality(DOMAIN close_list) > Len(Walk(goal_idx, H * W * D + 1))

\* C10: pq_astar returns at batch position i a (history, path) pair that
\* solve_single returns for instance i alone; every solve starts from fresh
\* Open/Closed/Parent structures, and every instance of the batch is solved.
C10_BatchIsPerInstance ==
    /\ (Searching /\ num_steps = 0) =>
            /\ open_list = (start_idx :> 0)
            /\ close_list = Empty
            /\ parent_list = (start_idx :> NoParent)
    /\ JustEnded =>
            <<histories[n - 1], path_maps[n - 1]>> \in
                solve_single(pred_costs[n - 1], start_maps[n - 1],
                             goal_maps[n - 1], map_designs[n - 1],
                             g2, H, W, D)
    /\ pc = "returned" =>
            /\ \A i \in Instances : outcome[i] # "none"
            /\ Len(output.histories) = BatchSize
            /\ Len(output.paths) = BatchSize
            /\ \A i \in Instances :
                    <<output.histories[i], output.paths[i]>> \in
                        solve_single(pred_costs[i], start_maps[i],
                                     goal_maps[i], map_designs[i],
                                     g2, H, W, D)

C10_Witness ==
    /\ pc = "returned"
    /\ BatchSize = 2
    /\ output.histories[1] # output.histories[2]
    /\ Cardinality(output.paths[2]) >= 2
    /\ Cardinality(output.histories[1]) >= 3

====
